---- MODULE Spec2Model ----
(***************************************************************************)
(* Model of the two transport adapters of ascoltatori found in this        *)
(* repository: AMQPAscoltatore (lib/amqp_ascoltatore.js) and               *)
(* RedisClusterAscoltatore (lib/redis_cluster_ascoltatore.js).             *)
(*                                                                         *)
(* One adapter instance is modelled at a time; `kind` says which class it  *)
(* is.  A topic is a sequence of tokens: "a/b" is <<"a", "/", "b">>.  The   *)
(* broker (AMQP exchange and queue, Redis pub/sub) is the environment: a   *)
(* command sent on the connection takes effect when it is sent (commands   *)
(* of one connection are handled in order), its events come back later.    *)
(***************************************************************************)
EXTENDS Integers, Sequences, FiniteSets, TLC

VARIABLES
  kind,          \* "amqp" or "redis": the class of the adapter instance
  ready,         \* AbstractAscoltatore._ready
  closing,       \* AMQPAscoltatore._closing
  closed,        \* AbstractAscoltatore._closed
  client_conn,   \* TRUE while this._client_conn (amqp) is defined
  queue,         \* TRUE while this._queue and this._exchange (amqp) are defined
  subs_counter,  \* this._subs_counter: key -> count, keys with count > 0 only
  ascoltatore,   \* amqp: this._ascoltatore, the local trie, a bag of <<pattern, cb>>
  ascoltatores,  \* redis: this._ascoltatores, subTopic -> local trie
  pendingOps,    \* operations issued before "ready", in issue order (dropped once
                 \* the connection is ended: "ready" can no longer be signalled)
  closedListeners, \* amqp: close calls joined with this.on("closed", done)
  doCloseFor,    \* amqp: the close call whose doClose listens on conn "close" (0: none)
  errToDoClose,  \* amqp: TRUE once conn "error" is routed to doClose
  conn,          \* broker side of the connection
  bindings,      \* broker side: queue bindings (amqp), (p)subscriptions (redis)
  inbox,         \* inbound messages the broker has routed to this connection
  deferQ,        \* util.defer: callbacks waiting for a later turn, in order
  handlerError,  \* the inbound message handler raised an exception
  live,          \* history: subscriptions the caller holds, a bag of <<pattern, cb>>
  lastOps,       \* history: the operations executed by the last step, with results
  closes,        \* history: the close calls, in order: result and done invocations
  nEnd,          \* history: number of conn.end() / rc.disconnect() calls
  closedEmits,   \* history: number of "closed" notifications emitted
  msgs,          \* history: per tracked publish, its topic and who was invoked
  scen,          \* history: progress of the reference-counting scenario per pattern
  listeners,     \* amqp: the once() listeners of the queue, in order of registration
  confirms,      \* broker side: confirmations owed to commands, in command order
  timers,        \* setTimeout callbacks waiting, in order
  dones,         \* history: per operation that takes a done, what became of it
  doneLog,       \* history: the operations whose done was invoked, in that order
  errors,        \* history: errors the transport reported, "error" events emitted
  sent           \* history: per followed publish of the other instance, its
                 \* message and the subscriptions the adapter held for it

vars == <<kind, ready, closing, closed, client_conn, queue, subs_counter,
          ascoltatore, ascoltatores, pendingOps, closedListeners, doCloseFor,
          errToDoClose, conn, bindings, inbox, deferQ, handlerError,
          live, lastOps, closes, nEnd, closedEmits, msgs, scen,
          listeners, confirms, timers, dones, doneLog, errors, sent>>

\* the completion callbacks of subscribe, unsubscribe and publish
completion == <<listeners, confirms, timers, dones, doneLog>>

-----------------------------------------------------------------------------
(* Bounds of the model.                                                    *)

MaxSubs == 2        \* subscriptions the caller holds at a time
MaxInFlight == 1    \* published messages tracked at a time
MaxDeferred == 3    \* operations issued before "ready"
MaxCloses == 2      \* close() calls
MaxOps == 3         \* operations whose done is followed
MaxErrors == 1      \* errors the transport reports

-----------------------------------------------------------------------------
(* Inputs.                                                                 *)

CB == {"cb1", "cb2"}

TopicAB == <<"a", "/", "b">>
TopicAPlus == <<"a", "/", "+">>
TopicC == <<"c">>

Patterns == {TopicAB, TopicAPlus}
PubTopics == {TopicAB, TopicC}

\* the subscriptions the callers ask for: two delivery targets share the
\* literal pattern, one of them also holds the wildcard pattern
SubIds == {<<TopicAB, "cb1">>, <<TopicAB, "cb2">>, <<TopicAPlus, "cb1">>}

-----------------------------------------------------------------------------
(* Token strings.                                                          *)

RECURSIVE ReplaceTok(_, _, _)
ReplaceTok(str, from, to) ==
  IF str = << >> THEN << >>
  ELSE <<IF Head(str) = from THEN to ELSE Head(str)>> \o ReplaceTok(Tail(str), from, to)

RECURSIVE Split(_, _)
\* str.split(sep): the segments between the separators, empty segments kept
Split(str, sep) ==
  IF \A i \in 1..Len(str) : str[i] # sep THEN <<str>>
  ELSE LET i == CHOOSE k \in 1..Len(str) :
                  str[k] = sep /\ \A j \in 1..(k - 1) : str[j] # sep
       IN <<SubSeq(str, 1, i - 1)>> \o Split(SubSeq(str, i + 1, Len(str)), sep)

EndsWithTok(str, t) == str # << >> /\ str[Len(str)] = t

Contains(str, t) == \E i \in 1..Len(str) : str[i] = t

endsWith(str, suffix) ==
  /\ Len(str) >= Len(suffix)
  /\ SubSeq(str, Len(str) - Len(suffix) + 1, Len(str)) = suffix

-----------------------------------------------------------------------------
(* Bags of subscriptions.                                                  *)

EmptyBag == [x \in SubIds |-> 0]

BagAdd(b, x) == [b EXCEPT ![x] = @ + 1]

BagRemove(b, x) == [b EXCEPT ![x] = IF @ > 0 THEN @ - 1 ELSE 0]

RECURSIVE SumOver(_, _)
SumOver(S, b) ==
  IF S = {} THEN 0
  ELSE LET x == CHOOSE y \in S : TRUE IN b[x] + SumOver(S \ {x}, b)

BagSize(b) == SumOver(SubIds, b)

PatternSize(b, p) == SumOver({x \in SubIds : x[1] = p}, b)

-----------------------------------------------------------------------------
(* Topic model and translator (AbstractAscoltatore, spec 4.1).             *)

Canonical == [separator |-> "/", wildcardOne |-> "+", wildcardSome |-> "*"]

AMQPNative == [separator |-> ".", wildcardOne |-> "*", wildcardSome |-> "#"]

RedisNative == [separator |-> "/", wildcardOne |-> "*", wildcardSome |-> "*"]

Native == IF kind = "amqp" THEN AMQPNative ELSE RedisNative

\* substitute the symbols of `from` by those of `to`, token by token
Translate(topic, from, to) ==
  [i \in 1..Len(topic) |->
     IF topic[i] = from.separator THEN to.separator
     ELSE IF topic[i] = from.wildcardOne THEN to.wildcardOne
     ELSE IF topic[i] = from.wildcardSome THEN to.wildcardSome
     ELSE topic[i]]

\* this._subTopic(topic): canonical pattern -> native pattern
SubTopic(topic) == Translate(topic, Canonical, Native)

\* this._pubTopic(topic): canonical topic -> native topic
PubTopic(topic) == ReplaceTok(topic, Canonical.separator, Native.separator)

\* this._recvTopic(topic): native topic -> canonical topic
RecvTopic(topic) == ReplaceTok(topic, Native.separator, Canonical.separator)

-----------------------------------------------------------------------------
(* Subscription trie (TrieAscoltatore, spec 4.2).                          *)

RECURSIVE MatchSegs(_, _, _, _)
\* literal segment: equal; single wildcard: exactly one segment; multi
\* wildcard in last position: all remaining segments, zero included
MatchSegs(pat, top, one, some) ==
  IF pat = << >> THEN top = << >>
  ELSE IF Len(pat) = 1 /\ Head(pat) = <<some>> THEN TRUE
  ELSE IF top = << >> THEN FALSE
  ELSE /\ (Head(pat) = <<one>> \/ Head(pat) = Head(top))
       /\ MatchSegs(Tail(pat), Tail(top), one, some)

\* match of a canonical pattern against a canonical topic
TrieMatch(pattern, topic) ==
  MatchSegs(Split(pattern, Canonical.separator), Split(topic, Canonical.separator),
            Canonical.wildcardOne, Canonical.wildcardSome)

\* trie.publish(topic): every subscription whose pattern matches is invoked once
TriePublish(trie, topic) ==
  [x \in SubIds |-> IF TrieMatch(x[1], topic) THEN trie[x] ELSE 0]

-----------------------------------------------------------------------------
(* Reference counter (SubsCounter, spec 4.3).                              *)

Count(c, k) == IF k \in DOMAIN c THEN c[k] ELSE 0

CounterInclude(c, k) == Count(c, k) > 0

CounterAdd(c, k) ==
  [x \in DOMAIN c \cup {k} |-> IF x = k THEN Count(c, k) + 1 ELSE c[x]]

CounterRemove(c, k) ==
  IF ~CounterInclude(c, k) THEN c
  ELSE IF c[k] = 1 THEN [x \in DOMAIN c \ {k} |-> c[x]]
  ELSE [c EXCEPT ![k] = @ - 1]

CounterClear == << >>

-----------------------------------------------------------------------------
(* Lifecycle guard (AbstractAscoltatore, spec 4.4 and 4.5).                *)

\* this._raiseIfClosed(): rejects once close() has begun
RaiseIfClosed == closing \/ closed

-----------------------------------------------------------------------------
(* The brokers.                                                            *)

\* AMQP topic exchange: does a binding key match a routing key
AMQPRoutes(binding, key) ==
  MatchSegs(Split(binding, AMQPNative.separator), Split(key, AMQPNative.separator),
            AMQPNative.wildcardOne, AMQPNative.wildcardSome)

RECURSIVE GlobMatch(_, _)
\* Redis PSUBSCRIBE glob: "*" matches any run of characters
GlobMatch(pat, str) ==
  IF pat = << >> THEN str = << >>
  ELSE IF Head(pat) = "*"
       THEN GlobMatch(Tail(pat), str) \/ (str # << >> /\ GlobMatch(pat, Tail(str)))
  ELSE str # << >> /\ Head(pat) = Head(str) /\ GlobMatch(Tail(pat), Tail(str))

\* Redis: does a (p)subscription receive a message published on a channel
RedisRoutes(b, channel) ==
  IF b.mode = "psubscribe" THEN GlobMatch(b.key, channel) ELSE b.key = channel

RECURSIVE SetToSeq(_)
SetToSeq(S) ==
  IF S = {} THEN << >>
  ELSE LET x == CHOOSE y \in S : TRUE IN <<x>> \o SetToSeq(S \ {x})

-----------------------------------------------------------------------------
(* The state the operations work on, as a record, so that the operations   *)
(* deferred before "ready" can be replayed one after the other in a step.   *)

NoMsg == [used |-> FALSE, topic |-> << >>, stable |-> FALSE, got |-> EmptyBag,
          bad |-> FALSE]

Pending(box, q, slot) ==
  \/ \E i \in 1..Len(box) : box[i].slot = slot
  \/ \E i \in 1..Len(q) : q[i].type = "dispatch" /\ q[i].slot = slot

\* history: a message is followed until the step after its delivery is over
Settled(m) ==
  [k \in DOMAIN m |-> IF Pending(inbox, deferQ, k) THEN m[k] ELSE NoMsg]

St == [counter |-> subs_counter, trie |-> ascoltatore, tries |-> ascoltatores,
       bind |-> bindings, inbox |-> inbox, msgs |-> Settled(msgs), live |-> live,
       scen |-> scen, ops |-> << >>]

Entry(op, topic, cb, result, calls) ==
  [op |-> op, topic |-> topic, cb |-> cb, result |-> result, calls |-> calls]

Call(fn, arg) == [fn |-> fn, arg |-> arg]

\* the exception of _raiseIfClosed: nothing else happens (the history keeps
\* the name of a rejected operation, not its arguments)
Reject(s, op, topic, cb) ==
  [s EXCEPT !.ops = Append(@, Entry(op, << >>, "none", "closed", << >>))]

InFlight(s, slot) == Pending(s.inbox, deferQ, slot)

FreeSlots(s) == {k \in 1..MaxInFlight : ~InFlight(s, k)}

NextSlot(s) ==
  IF FreeSlots(s) = {} THEN 0
  ELSE CHOOSE k \in FreeSlots(s) : \A j \in FreeSlots(s) : k <= j

NewMsg(s, slot, topic) ==
  IF slot = 0 THEN s.msgs
  ELSE [s.msgs EXCEPT ![slot] = [used |-> TRUE, topic |-> topic, stable |-> TRUE,
                                 got |-> EmptyBag, bad |-> FALSE]]

-----------------------------------------------------------------------------
(* AMQPAscoltatore.                                                        *)

dataV1Queue == <<"mqtt-broker:device:data">>
powerQueue == <<"mqtt-broker:device:power">>
dataV2Queue == <<"mqtt-broker:device:v2:data">>
deviceConnectQueue == <<"mqtt-broker:device:v2:connect">>
transmitterConnectQueue == <<"mqtt-broker:transmitter:v2:connect">>

\* topicParts[i] of topic.split("/"), << "undefined" >> beyond the end
TopicPart(topic, i) ==
  LET parts == Split(topic, "/")
  IN IF i + 1 <= Len(parts) THEN parts[i + 1] ELSE <<"undefined">>

\* a forward that does not look at the event class of a v2 topic
AuxQueue_NoEventClass(topic) ==
  LET version == TopicPart(topic, 1)
      collection == TopicPart(topic, 3)
  IN IF version = <<"v1">>
     THEN IF endsWith(topic, <<"/", "data">>) THEN dataV1Queue
          ELSE IF endsWith(topic, <<"/", "data", "/", "power">>) THEN powerQueue
          ELSE << >>
     ELSE IF version = <<"v2">>
     THEN IF collection = <<"transmitter">> THEN transmitterConnectQueue
          ELSE IF collection = <<"device">> THEN dataV2Queue
          ELSE << >>
     ELSE << >>

\* the auxiliary queue a published message is forwarded to, << >> for none
AuxQueue(topic) ==
  LET version == TopicPart(topic, 1)
      collection == TopicPart(topic, 3)
      eventClass == TopicPart(topic, 4)
  IN IF version = <<"v1">>
     THEN IF endsWith(topic, <<"/", "data">>) THEN dataV1Queue
          ELSE IF endsWith(topic, <<"/", "data", "/", "power">>) THEN powerQueue
          ELSE << >>
     ELSE IF version = <<"v2">>
     THEN IF collection = <<"transmitter">> /\ eventClass = <<"presence">>
             /\ TopicPart(topic, 5) = <<"connect">>
          THEN transmitterConnectQueue
          ELSE IF collection = <<"device">> /\ eventClass = <<"presence">>
                  /\ TopicPart(topic, 5) = <<"connect">>
          THEN deviceConnectQueue
          ELSE IF collection = <<"device">> /\ eventClass = <<"data">>
          THEN dataV2Queue
          ELSE << >>
     ELSE << >>

AMQPBinding(topic) == [mode |-> "bind", key |-> SubTopic(topic)]

\* AMQPSubscribe with the counter updated before it is consulted
AMQPSubscribe_CountFirst(s, topic, cb) ==
  IF RaiseIfClosed THEN Reject(s, "subscribe", topic, cb)
  ELSE [s EXCEPT
          !.trie = BagAdd(@, <<topic, cb>>),
          !.counter = CounterAdd(@, topic),
          !.ops = Append(@, Entry("subscribe", topic, cb, "ok", << >>))]

\* AMQPSubscribe without the call of _raiseIfClosed
AMQPSubscribe_NoRaise(s, topic, cb) ==
  LET first == ~CounterInclude(s.counter, topic)
      s1 == [s EXCEPT !.trie = BagAdd(@, <<topic, cb>>)]
  IN IF first /\ ~queue
     THEN [s1 EXCEPT !.ops = Append(@, Entry("subscribe", topic, cb, "TypeError", << >>))]
     ELSE [s1 EXCEPT
             !.bind = IF first THEN @ \cup {AMQPBinding(topic)} ELSE @,
             !.counter = CounterAdd(@, topic),
             !.ops = Append(@, Entry("subscribe", topic, cb, "ok",
                       IF first THEN <<Call("bind", SubTopic(topic))>> ELSE << >>))]

AMQPSubscribe(s, topic, cb) ==
  IF RaiseIfClosed THEN Reject(s, "subscribe", topic, cb)
  ELSE LET first == ~CounterInclude(s.counter, topic)
           s1 == [s EXCEPT !.trie = BagAdd(@, <<topic, cb>>)]
       IN IF first /\ ~queue
          THEN \* this._queue is undefined
               [s1 EXCEPT !.ops = Append(@, Entry("subscribe", topic, cb, "TypeError", << >>))]
          ELSE [s1 EXCEPT
                  !.bind = IF first THEN @ \cup {AMQPBinding(topic)} ELSE @,
                  !.counter = CounterAdd(@, topic),
                  !.ops = Append(@, Entry("subscribe", topic, cb, "ok",
                            IF first THEN <<Call("bind", SubTopic(topic))>> ELSE << >>))]

AMQPUnsubscribe(s, topic, cb) ==
  IF RaiseIfClosed THEN Reject(s, "unsubscribe", topic, cb)
  ELSE LET c == CounterRemove(s.counter, topic)
           last == ~CounterInclude(c, topic)
           s1 == [s EXCEPT !.counter = c, !.trie = BagRemove(@, <<topic, cb>>)]
       IN IF last /\ ~queue
          THEN [s1 EXCEPT !.ops = Append(@, Entry("unsubscribe", topic, cb, "TypeError", << >>))]
          ELSE [s1 EXCEPT
                  !.bind = IF last THEN @ \ {AMQPBinding(topic)} ELSE @,
                  !.ops = Append(@, Entry("unsubscribe", topic, cb, "ok",
                            IF last THEN <<Call("unbind", SubTopic(topic))>> ELSE << >>))]

\* AMQPPublish with the topic sent as it is, not through _pubTopic
AMQPPublish_NoPubTopic(s, topic) ==
  IF RaiseIfClosed THEN Reject(s, "publish", topic, "none")
  ELSE LET routed == \E b \in s.bind : AMQPRoutes(b.key, topic)
           slot == NextSlot(s)
       IN [s EXCEPT
             !.msgs = NewMsg(s, slot, topic),
             !.inbox = IF routed
                       THEN Append(@, [sub |-> << >>, topic |-> topic, slot |-> slot])
                       ELSE @,
             !.ops = Append(@, Entry("publish", topic, "none", "ok",
                                     <<Call("publish", topic)>>))]

AMQPPublish(s, topic) ==
  IF RaiseIfClosed THEN Reject(s, "publish", topic, "none")
  ELSE LET aux == AuxQueue(topic)
           forward == IF aux = << >> THEN << >> ELSE <<Call("forward", aux)>>
           key == PubTopic(topic)
           routed == \E b \in s.bind : AMQPRoutes(b.key, key)
           slot == NextSlot(s)
       IN IF aux # << >> /\ ~client_conn
          THEN [s EXCEPT !.ops = Append(@, Entry("publish", topic, "none", "TypeError", << >>))]
          ELSE IF ~queue
          THEN [s EXCEPT !.ops = Append(@, Entry("publish", topic, "none", "TypeError", forward))]
          ELSE [s EXCEPT
                  !.msgs = NewMsg(s, slot, topic),
                  !.inbox = IF routed
                            THEN Append(@, [sub |-> << >>, topic |-> key, slot |-> slot])
                            ELSE @,
                  !.ops = Append(@, Entry("publish", topic, "none", "ok",
                                          forward \o <<Call("publish", key)>>))]

-----------------------------------------------------------------------------
(* RedisClusterAscoltatore.                                                *)

containsWildcard(topic) ==
  Contains(topic, Canonical.wildcardOne) \/ Contains(topic, Canonical.wildcardSome)

\* the subscription topic: a separator is added unless it ends in "/" or "*"
RedisSubTopic(topic) ==
  LET subTopic == SubTopic(topic)
  IN IF EndsWithTok(subTopic, "/") \/ EndsWithTok(subTopic, "*") THEN subTopic
     ELSE Append(subTopic, "/")

RedisBinding(topic) ==
  [mode |-> IF containsWildcard(topic) THEN "psubscribe" ELSE "subscribe",
   key |-> RedisSubTopic(topic)]

RedisSubscribe(s, topic, cb) ==
  IF RaiseIfClosed THEN Reject(s, "subscribe", topic, cb)
  ELSE LET subTopic == RedisSubTopic(topic)
           b == RedisBinding(topic)
           trie == IF subTopic \in DOMAIN s.tries THEN s.tries[subTopic] ELSE EmptyBag
       IN [s EXCEPT
             !.bind = @ \cup {b},
             !.counter = CounterAdd(@, subTopic),
             !.tries = [k \in DOMAIN @ \cup {subTopic} |->
                          IF k = subTopic THEN BagAdd(trie, <<topic, cb>>) ELSE @[k]],
             !.ops = Append(@, Entry("subscribe", topic, cb, "ok",
                                     <<Call(b.mode, subTopic)>>))]

\* unsubscribe that keeps the local router of a pattern nobody holds any more
RedisUnsubscribe_KeepEntry(s, topic, cb) ==
  IF RaiseIfClosed THEN Reject(s, "unsubscribe", topic, cb)
  ELSE LET subTopic == RedisSubTopic(topic)
           b == RedisBinding(topic)
           c == CounterRemove(s.counter, subTopic)
           has == subTopic \in DOMAIN s.tries
           t1 == IF has THEN [s.tries EXCEPT ![subTopic] = BagRemove(@, <<topic, cb>>)]
                 ELSE s.tries
       IN IF CounterInclude(c, subTopic)
          THEN [s EXCEPT !.counter = c, !.tries = t1,
                         !.ops = Append(@, Entry("unsubscribe", topic, cb, "ok", << >>))]
          ELSE [s EXCEPT
                  !.counter = c,
                  !.tries = t1,
                  !.bind = @ \ {b},
                  !.ops = Append(@, Entry("unsubscribe", topic, cb, "ok",
                            <<Call(IF b.mode = "psubscribe" THEN "punsubscribe"
                                   ELSE "unsubscribe", subTopic)>>))]

RedisUnsubscribe(s, topic, cb) ==
  IF RaiseIfClosed THEN Reject(s, "unsubscribe", topic, cb)
  ELSE LET subTopic == RedisSubTopic(topic)
           b == RedisBinding(topic)
           c == CounterRemove(s.counter, subTopic)
           has == subTopic \in DOMAIN s.tries
           t1 == IF has THEN [s.tries EXCEPT ![subTopic] = BagRemove(@, <<topic, cb>>)]
                 ELSE s.tries
       IN IF CounterInclude(c, subTopic)
          THEN [s EXCEPT !.counter = c, !.tries = t1,
                         !.ops = Append(@, Entry("unsubscribe", topic, cb, "ok", << >>))]
          ELSE [s EXCEPT
                  !.counter = c,
                  !.tries = [k \in DOMAIN t1 \ {subTopic} |-> t1[k]],
                  !.bind = @ \ {b},
                  !.ops = Append(@, Entry("unsubscribe", topic, cb, "ok",
                            <<Call(IF b.mode = "psubscribe" THEN "punsubscribe"
                                   ELSE "unsubscribe", subTopic)>>))]

\* the published topic: a separator is added unless it ends in "/"
RedisPubTopic(topic) ==
  LET t == PubTopic(topic) IN IF EndsWithTok(t, "/") THEN t ELSE Append(t, "/")

RedisPublish(s, topic) ==
  IF RaiseIfClosed THEN Reject(s, "publish", topic, "none")
  ELSE LET channel == RedisPubTopic(topic)
           to == SetToSeq({b \in s.bind : RedisRoutes(b, channel)})
           slot == NextSlot(s)
       IN [s EXCEPT
             !.msgs = NewMsg(s, slot, topic),
             !.inbox = @ \o [i \in 1..Len(to) |->
                               [sub |-> to[i].key, topic |-> channel, slot |-> slot]],
             !.ops = Append(@, Entry("publish", topic, "none", "ok",
                                     <<Call("publish", channel)>>))]

-----------------------------------------------------------------------------
(* Execution of one operation, and the history kept about it.              *)

Op(op, topic, cb) == [op |-> op, topic |-> topic, cb |-> cb]

Exec(s, o) ==
  IF kind = "amqp"
  THEN IF o.op = "subscribe" THEN AMQPSubscribe(s, o.topic, o.cb)
       ELSE IF o.op = "unsubscribe" THEN AMQPUnsubscribe(s, o.topic, o.cb)
       ELSE AMQPPublish(s, o.topic)
  ELSE IF o.op = "subscribe" THEN RedisSubscribe(s, o.topic, o.cb)
       ELSE IF o.op = "unsubscribe" THEN RedisUnsubscribe(s, o.topic, o.cb)
       ELSE RedisPublish(s, o.topic)

SubscribeCalls == {"bind", "subscribe", "psubscribe"}
UnsubscribeCalls == {"unbind", "unsubscribe", "punsubscribe"}

NumCalls(calls, fns) == Cardinality({i \in 1..Len(calls) : calls[i].fn \in fns})

ScenInit == [stage |-> 0, first |-> "none", second |-> "none", binds |-> 0, unbinds |-> 0]
ScenOff == [stage |-> 5, first |-> "none", second |-> "none", binds |-> 0, unbinds |-> 0]

\* the scenario subscribe(p, x), subscribe(p, y), unsubscribe(p, x),
\* unsubscribe(p, y) with x # y, started when the caller holds no
\* subscription of p: how far it has come and the transport calls it issued
ScenStep(sc, fresh, e) ==
  LET base == IF fresh THEN ScenInit ELSE sc
      nb == base.binds + NumCalls(e.calls, SubscribeCalls)
      nu == base.unbinds + NumCalls(e.calls, UnsubscribeCalls)
  IN IF base.stage = 0 /\ e.op = "subscribe"
     THEN [stage |-> 1, first |-> e.cb, second |-> "none", binds |-> nb, unbinds |-> nu]
     ELSE IF base.stage = 1 /\ e.op = "subscribe" /\ e.cb # base.first
     THEN [base EXCEPT !.stage = 2, !.second = e.cb, !.binds = nb, !.unbinds = nu]
     ELSE IF base.stage = 2 /\ e.op = "unsubscribe" /\ e.cb = base.first
     THEN [base EXCEPT !.stage = 3, !.binds = nb, !.unbinds = nu]
     ELSE IF base.stage = 3 /\ e.op = "unsubscribe" /\ e.cb = base.second
     THEN [base EXCEPT !.stage = 4, !.binds = nb, !.unbinds = nu]
     ELSE ScenOff

Unstable(m) == [k \in DOMAIN m |-> [m[k] EXCEPT !.stable = FALSE]]

\* history of an executed operation: the caller's subscriptions, the scenario
Track(s0, s1) ==
  LET e == s1.ops[Len(s1.ops)]
      x == <<e.topic, e.cb>>
      l1 == IF e.op = "subscribe" THEN BagAdd(s0.live, x) ELSE BagRemove(s0.live, x)
  IN IF e.result # "ok" \/ e.op = "publish" THEN s1
     ELSE [s1 EXCEPT
             !.live = l1,
             !.msgs = IF l1 = s0.live THEN @ ELSE Unstable(@),
             !.scen = [@ EXCEPT ![e.topic] =
                         ScenStep(@, PatternSize(s0.live, e.topic) = 0, e)]]

Apply(s, o) == Track(s, Exec(s, o))

RECURSIVE Replay(_, _)
\* the deferred operations, executed in the order they were issued
Replay(s, ops) ==
  IF ops = << >> THEN s ELSE Replay(Apply(s, Head(ops)), Tail(ops))

Commit(s) ==
  /\ subs_counter' = s.counter
  /\ ascoltatore' = s.trie
  /\ ascoltatores' = s.tries
  /\ bindings' = s.bind
  /\ inbox' = s.inbox
  /\ msgs' = s.msgs
  /\ live' = s.live
  /\ scen' = s.scen
  /\ lastOps' = s.ops

NumOps(ops, op) == Cardinality({i \in 1..Len(ops) : ops[i].op = op})

\* an operation issued before "ready" and before close() is deferred
Deferring == ~RaiseIfClosed /\ ~ready

Defer(o) ==
  /\ Len(pendingOps) < MaxDeferred
  /\ pendingOps' = Append(pendingOps, o)
  /\ lastOps' = << >>
  /\ msgs' = Settled(msgs)
  /\ UNCHANGED <<subs_counter, ascoltatore, ascoltatores, bindings, inbox, live, scen>>

Issue(o) ==
  IF Deferring THEN Defer(o)
  ELSE Commit(Apply(St, o)) /\ UNCHANGED pendingOps

lifecycle == <<kind, ready, closing, closed, client_conn, queue, closedListeners,
               doCloseFor, errToDoClose, conn, deferQ, handlerError,
               closes, nEnd, closedEmits>>

Subscribe(topic, cb) ==
  /\ RaiseIfClosed \/ BagSize(live) + NumOps(pendingOps, "subscribe") < MaxSubs
  /\ Issue(Op("subscribe", topic, cb))
  /\ UNCHANGED lifecycle

Unsubscribe(topic, cb) ==
  /\ Issue(Op("unsubscribe", topic, cb))
  /\ UNCHANGED lifecycle

Publish(topic) ==
  /\ \/ RaiseIfClosed
     \/ Deferring /\ NumOps(pendingOps, "publish") < MaxInFlight
     \/ ~Deferring /\ FreeSlots(St) # {}
  /\ Issue(Op("publish", topic, "none"))
  /\ UNCHANGED lifecycle

-----------------------------------------------------------------------------
(* close().                                                                *)

CloseRec(result, done) == [result |-> result, done |-> done]

Task(type, id, sub, topic, slot) ==
  [type |-> type, id |-> id, sub |-> sub, topic |-> topic, slot |-> slot]

CloseDoneTask(id) == Task("closeDone", id, << >>, << >>, 0)

\* history of a close call: the caller holds no subscription any more, the
\* messages published before and the scenarios under way are no longer followed
CloseHistory(result, calls) ==
  /\ live' = EmptyBag
  /\ msgs' = [k \in DOMAIN msgs |-> NoMsg]
  /\ scen' = [p \in Patterns |-> ScenInit]
  /\ lastOps' = <<Entry("close", << >>, "none", result, calls)>>

AMQPClose ==
  LET id == Len(closes) + 1 IN
  /\ kind = "amqp"
  /\ Len(closes) < MaxCloses
  /\ IF closed
     THEN \* wrap(done)()
          /\ closes' = Append(closes, CloseRec("ok", 1))
          /\ CloseHistory("ok", << >>)
          /\ UNCHANGED <<closing, client_conn, queue, closedListeners, doCloseFor,
                         errToDoClose, conn, bindings, nEnd>>
     ELSE IF closing
     THEN \* this.on("closed", done)
          /\ closes' = Append(closes, CloseRec("ok", 0))
          /\ closedListeners' = Append(closedListeners, id)
          /\ CloseHistory("ok", << >>)
          /\ UNCHANGED <<closing, client_conn, queue, doCloseFor, errToDoClose, conn,
                         bindings, nEnd>>
     ELSE /\ closing' = TRUE
          /\ IF ~client_conn
             THEN /\ closes' = Append(closes, CloseRec("ok", 0))
                  /\ CloseHistory("ok", << >>)
                  /\ UNCHANGED <<client_conn, queue, doCloseFor, errToDoClose, conn,
                                 bindings, nEnd>>
             ELSE IF ~queue
             THEN \* this._queue is undefined: destroy() raises after the
                  \* "close" listener was added, before conn.end()
                  /\ doCloseFor' = id
                  /\ closes' = Append(closes, CloseRec("TypeError", 0))
                  /\ CloseHistory("TypeError", << >>)
                  /\ UNCHANGED <<client_conn, queue, errToDoClose, conn, bindings, nEnd>>
             ELSE /\ doCloseFor' = id
                  /\ bindings' = {}
                  /\ conn' = "ending"
                  /\ nEnd' = nEnd + 1
                  /\ errToDoClose' = TRUE
                  /\ client_conn' = FALSE
                  /\ queue' = FALSE
                  /\ closes' = Append(closes, CloseRec("ok", 0))
                  /\ CloseHistory("ok", <<Call("destroy", << >>), Call("end", << >>)>>)
          /\ UNCHANGED closedListeners
  /\ pendingOps' = IF conn' = "ending" THEN << >> ELSE pendingOps
  /\ UNCHANGED <<kind, ready, closed, subs_counter, ascoltatore, ascoltatores,
                 inbox, deferQ, handlerError, closedEmits>>

RedisClose ==
  LET id == Len(closes) + 1 IN
  /\ kind = "redis"
  /\ Len(closes) < MaxCloses
  /\ closes' = Append(closes, CloseRec("ok", 0))
  /\ IF closed
     THEN \* newDone()
          /\ deferQ' = Append(deferQ, CloseDoneTask(id))
          /\ CloseHistory("ok", << >>)
          /\ UNCHANGED <<closed, subs_counter, ascoltatores, doCloseFor, conn, bindings,
                         nEnd, closedEmits>>
     ELSE /\ subs_counter' = CounterClear
          /\ doCloseFor' = id
          /\ conn' = "ending"
          /\ bindings' = {}
          /\ nEnd' = nEnd + 1
          /\ ascoltatores' = << >>
          /\ closed' = TRUE
          /\ closedEmits' = closedEmits + 1
          /\ CloseHistory("ok", <<Call("disconnect", << >>)>>)
          /\ UNCHANGED deferQ
  /\ pendingOps' = << >>
  /\ UNCHANGED <<kind, ready, closing, client_conn, queue, ascoltatore,
                 closedListeners, errToDoClose, inbox, handlerError>>

-----------------------------------------------------------------------------
(* Events of the connection.                                               *)

Quiet == lastOps' = << >>

QuietMsgs == msgs' = Settled(msgs)

\* _startConn, third step: the queue is declared
AMQPQueueOpen ==
  /\ kind = "amqp"
  /\ conn = "connecting"
  /\ conn' = "consuming"
  /\ queue' = TRUE
  /\ Quiet
  /\ QuietMsgs
  /\ UNCHANGED <<kind, ready, closing, closed, client_conn, subs_counter, ascoltatore,
                 ascoltatores, pendingOps, closedListeners, doCloseFor, errToDoClose,
                 bindings, inbox, deferQ, handlerError, live, closes, nEnd,
                 closedEmits, scen>>

\* "ready" is emitted: the operations deferred so far are replayed
EmitReady ==
  /\ ready' = TRUE
  /\ Commit(Replay(St, pendingOps))
  /\ pendingOps' = << >>

\* _startConn, last steps: basicConsumeOk, then "ready"
AMQPConsumeOk ==
  /\ kind = "amqp"
  /\ conn = "consuming"
  /\ conn' = "open"
  /\ EmitReady
  /\ UNCHANGED <<kind, closing, closed, client_conn, queue, closedListeners,
                 doCloseFor, errToDoClose, deferQ, handlerError, closes,
                 nEnd, closedEmits>>

\* _startPubSub: this._rc.on("ready")
RedisReady ==
  /\ kind = "redis"
  /\ conn = "connecting"
  /\ conn' = "open"
  /\ EmitReady
  /\ UNCHANGED <<kind, closing, closed, client_conn, queue, closedListeners,
                 doCloseFor, errToDoClose, deferQ, handlerError, closes,
                 nEnd, closedEmits>>

\* doClose that does not look at _closed
DoClose_NoGuard ==
  /\ deferQ' = Append(deferQ, CloseDoneTask(doCloseFor))
  /\ closed' = TRUE
  /\ closedEmits' = closedEmits + 1
  /\ closes' = [i \in 1..Len(closes) |->
                  [closes[i] EXCEPT !.done =
                     @ + Cardinality({j \in 1..Len(closedListeners) :
                                        closedListeners[j] = i})]]

\* doClose of AMQPAscoltatore.close
DoClose ==
  IF closed
  THEN UNCHANGED <<closed, deferQ, closes, closedEmits>>
  ELSE /\ deferQ' = Append(deferQ, CloseDoneTask(doCloseFor))
       /\ closed' = TRUE
       /\ closedEmits' = closedEmits + 1
       /\ closes' = [i \in 1..Len(closes) |->
                       [closes[i] EXCEPT !.done =
                          @ + Cardinality({j \in 1..Len(closedListeners) :
                                             closedListeners[j] = i})]]

\* the connection emits "close" after conn.end()
AMQPConnClose ==
  /\ kind = "amqp"
  /\ conn = "ending"
  /\ conn' = "closed"
  /\ inbox' = << >>
  /\ IF doCloseFor # 0 THEN DoClose
     ELSE UNCHANGED <<closed, deferQ, closes, closedEmits>>
  /\ Quiet
  /\ QuietMsgs
  /\ UNCHANGED <<kind, ready, closing, client_conn, queue, subs_counter, ascoltatore,
                 ascoltatores, pendingOps, closedListeners, doCloseFor, errToDoClose,
                 bindings, handlerError, live, nEnd, scen>>

\* the connection emits "error"
AMQPConnError ==
  /\ kind = "amqp"
  /\ conn # "closed"
  /\ IF errToDoClose
     THEN DoClose
     ELSE \* that.emit("error", error)
          UNCHANGED <<closed, deferQ, closes, closedEmits>>
  /\ Quiet
  /\ QuietMsgs
  /\ UNCHANGED <<kind, ready, closing, client_conn, queue, subs_counter, ascoltatore,
                 ascoltatores, pendingOps, closedListeners, doCloseFor, errToDoClose,
                 conn, bindings, inbox, handlerError, live, nEnd, scen>>

\* the callback of rc.disconnect
RedisDisconnected ==
  /\ kind = "redis"
  /\ conn = "ending"
  /\ conn' = "closed"
  /\ inbox' = << >>
  /\ deferQ' = Append(deferQ, CloseDoneTask(doCloseFor))
  /\ Quiet
  /\ QuietMsgs
  /\ UNCHANGED <<kind, ready, closing, closed, client_conn, queue, subs_counter,
                 ascoltatore, ascoltatores, pendingOps, closedListeners, doCloseFor,
                 errToDoClose, bindings, handlerError, live, closes, nEnd,
                 closedEmits, scen>>

-----------------------------------------------------------------------------
(* Inbound messages.                                                       *)

\* history: the delivery targets invoked for a tracked message, and whether
\* one of them was given another topic than the published one
Invoked(m, slot, inv, topic) ==
  IF slot = 0 THEN m
  ELSE [m EXCEPT ![slot] =
          [@ EXCEPT !.got = [x \in SubIds |-> @[x] + inv[x]],
                    !.bad = @ \/ (BagSize(inv) > 0 /\ topic # m[slot].topic)]]

\* topic.replace(new RegExp('/$'), '')
StripSlash(topic) ==
  IF EndsWithTok(topic, "/") THEN SubSeq(topic, 1, Len(topic) - 1) ELSE topic

\* _startConn: the consumer of the queue
AMQPDeliver ==
  /\ kind = "amqp"
  /\ inbox # << >>
  /\ conn # "closed"
  /\ inbox' = Tail(inbox)
  /\ IF ~queue
     THEN \* that._queue.shift() on an undefined queue
          handlerError' = TRUE /\ msgs' = Settled(msgs)
     ELSE LET topic == RecvTopic(Head(inbox).topic)
          IN /\ msgs' = Invoked(Settled(msgs), Head(inbox).slot, TriePublish(ascoltatore, topic), topic)
             /\ UNCHANGED handlerError
  /\ Quiet
  /\ UNCHANGED <<kind, ready, closing, closed, client_conn, queue, subs_counter,
                 ascoltatore, ascoltatores, pendingOps, closedListeners, doCloseFor,
                 errToDoClose, conn, bindings, deferQ, live, closes, nEnd,
                 closedEmits, scen>>

\* the deferred part of the handler of _startPubSub
RedisDispatch(t) ==
  LET topic == RecvTopic(StripSlash(t.topic))
  IN IF t.sub \in DOMAIN ascoltatores
     THEN msgs' = Invoked(Settled(msgs), t.slot, TriePublish(ascoltatores[t.sub], topic), topic)
     ELSE msgs' = Settled(msgs)

\* a handler that dispatches inside the event callback of the client
RedisMessage_Sync ==
  /\ kind = "redis"
  /\ inbox # << >>
  /\ conn # "closed"
  /\ inbox' = Tail(inbox)
  /\ RedisDispatch(Task("dispatch", 0, Head(inbox).sub, Head(inbox).topic,
                        Head(inbox).slot))
  /\ Quiet
  /\ UNCHANGED <<kind, ready, closing, closed, client_conn, queue, subs_counter,
                 ascoltatore, ascoltatores, pendingOps, closedListeners, doCloseFor,
                 errToDoClose, conn, bindings, deferQ, handlerError, live, closes,
                 nEnd, closedEmits, scen>>

\* _startPubSub: "message" or "pmessage" runs the handler, which defers
RedisMessage ==
  /\ kind = "redis"
  /\ inbox # << >>
  /\ conn # "closed"
  /\ inbox' = Tail(inbox)
  /\ deferQ' = Append(deferQ, Task("dispatch", 0, Head(inbox).sub, Head(inbox).topic,
                                   Head(inbox).slot))
  /\ Quiet
  /\ QuietMsgs
  /\ UNCHANGED <<kind, ready, closing, closed, client_conn, queue, subs_counter,
                 ascoltatore, ascoltatores, pendingOps, closedListeners, doCloseFor,
                 errToDoClose, conn, bindings, handlerError, live, closes,
                 nEnd, closedEmits, scen>>

\* util.defer: the next deferred callback runs
RunDeferred ==
  /\ deferQ # << >>
  /\ deferQ' = Tail(deferQ)
  /\ IF Head(deferQ).type = "closeDone"
     THEN /\ closes' = [closes EXCEPT ![Head(deferQ).id].done = @ + 1]
          /\ msgs' = Settled(msgs)
     ELSE /\ RedisDispatch(Head(deferQ))
          /\ UNCHANGED closes
  /\ Quiet
  /\ UNCHANGED <<kind, ready, closing, closed, client_conn, queue, subs_counter,
                 ascoltatore, ascoltatores, pendingOps, closedListeners, doCloseFor,
                 errToDoClose, conn, bindings, inbox, handlerError, live,
                 nEnd, closedEmits, scen>>

-----------------------------------------------------------------------------
(* Messages: the values publish(topic, message) is called with.            *)

Value(t, v) == [t |-> t, v |-> v]

Null == Value("null", "")
Undefined == Value("undefined", "")
False == Value("boolean", "false")
Str(v) == Value("string", v)
NoPayload == Value("none", "")

Payloads == {Str("m"), Null, Undefined}

\* String(message)
String(message) ==
  IF message.t = "string" THEN message
  ELSE IF message.t = "boolean" THEN Str(message.v)
  ELSE Str(message.t)

RedisPayload_Raw(message) == message

\* publish: an undefined or null message is replaced by false
RedisPayload(message) ==
  IF message = Undefined \/ message = Null THEN False ELSE message

\* the cluster client sends a value it can write on the wire, which null and
\* undefined are not
Sendable(data) == data.t \notin {"null", "undefined"}

-----------------------------------------------------------------------------
(* The specification.                                                      *)

Init ==
  /\ kind \in {"amqp", "redis"}
  /\ ready = FALSE
  /\ closing = FALSE
  /\ closed = FALSE
  /\ client_conn = TRUE
  /\ queue = FALSE
  /\ subs_counter = << >>
  /\ ascoltatore = EmptyBag
  /\ ascoltatores = << >>
  /\ pendingOps = << >>
  /\ closedListeners = << >>
  /\ doCloseFor = 0
  /\ errToDoClose = FALSE
  /\ conn = "connecting"
  /\ bindings = {}
  /\ inbox = << >>
  /\ deferQ = << >>
  /\ handlerError = FALSE
  /\ live = EmptyBag
  /\ lastOps = << >>
  /\ closes = << >>
  /\ nEnd = 0
  /\ closedEmits = 0
  /\ msgs = [k \in 1..MaxInFlight |-> NoMsg]
  /\ scen = [p \in Patterns |-> ScenInit]
  /\ listeners = << >>
  /\ confirms = << >>
  /\ timers = << >>
  /\ dones = << >>
  /\ doneLog = << >>
  /\ errors = [reported |-> 0, emitted |-> 0]
  /\ sent = [k \in 1..MaxInFlight |-> [message |-> NoPayload, to |-> {}]]

\* the adapter with the completion callbacks of subscribe, unsubscribe and
\* publish left out: routing, reference counting, close
Next ==
  \/ \E x \in SubIds : Subscribe(x[1], x[2]) /\ UNCHANGED <<completion, errors, sent>>
  \/ \E x \in SubIds : Unsubscribe(x[1], x[2]) /\ UNCHANGED <<completion, errors, sent>>
  \/ \E topic \in PubTopics : Publish(topic) /\ UNCHANGED <<completion, errors, sent>>
  \/ AMQPClose /\ UNCHANGED <<completion, errors, sent>>
  \/ RedisClose /\ UNCHANGED <<completion, errors, sent>>
  \/ AMQPQueueOpen /\ UNCHANGED <<completion, errors, sent>>
  \/ AMQPConsumeOk /\ UNCHANGED <<completion, errors, sent>>
  \/ RedisReady /\ UNCHANGED <<completion, errors, sent>>
  \/ AMQPConnClose /\ UNCHANGED <<completion, errors, sent>>
  \/ AMQPConnError /\ UNCHANGED <<completion, errors, sent>>
  \/ RedisDisconnected /\ UNCHANGED <<completion, errors, sent>>
  \/ AMQPDeliver /\ UNCHANGED <<completion, errors, sent>>
  \/ RedisMessage /\ UNCHANGED <<completion, errors, sent>>
  \/ RunDeferred /\ UNCHANGED <<completion, errors, sent>>

Spec == Init /\ [][Next]_vars

-----------------------------------------------------------------------------
(* The completion callbacks (done) of subscribe, unsubscribe and publish.  *)

\* awaits: the done waits for a confirmation of the transport; edge: the
\* operation took the count of its pattern from 0 to 1 or from 1 to 0
DoneRec(op, topic, awaits, edge) ==
  [op |-> op, topic |-> topic, awaits |-> awaits, edge |-> edge,
   confirmed |-> FALSE, fired |-> 0, early |-> FALSE]

DoneTask(id) == Task("done", id, << >>, << >>, 0)

Confirm(ev, key, id) == [ev |-> ev, key |-> key, id |-> id]

Listener(ev, id) == [ev |-> ev, id |-> id]

Co == [listeners |-> listeners, confirms |-> confirms, deferQ |-> deferQ,
       dones |-> dones, counter |-> subs_counter]

\* history: did the operation change whether its pattern is counted
Edge(c, e, key) ==
  \/ e.op = "subscribe" /\ Count(c.counter, key) = 0
  \/ e.op = "unsubscribe" /\ Count(c.counter, key) = 1

Counted(c, e, key) ==
  IF e.op = "subscribe" THEN CounterAdd(c.counter, key)
  ELSE IF e.op = "unsubscribe" THEN CounterRemove(c.counter, key)
  ELSE c.counter

\* AMQPAscoltatore: what subscribe, unsubscribe and publish do with done
AMQPDone(c, e) ==
  LET id == Len(c.dones) + 1
      edge == Edge(c, e, e.topic)
      c1 == [c EXCEPT !.counter = Counted(c, e, e.topic)]
  IN
  IF NumCalls(e.calls, {"bind"}) > 0
  THEN \* this._queue.once("queueBindOk", ...), then this._queue.bind
       [c1 EXCEPT !.listeners = Append(@, Listener("queueBindOk", id)),
                  !.confirms = Append(@, Confirm("queueBindOk", SubTopic(e.topic), id)),
                  !.dones = Append(@, DoneRec(e.op, e.topic, TRUE, edge))]
  ELSE IF NumCalls(e.calls, {"unbind"}) > 0
  THEN \* this._queue.once("queueUnbindOk", ...), then this._queue.unbind
       [c1 EXCEPT !.listeners = Append(@, Listener("queueUnbindOk", id)),
                  !.confirms = Append(@, Confirm("queueUnbindOk", SubTopic(e.topic), id)),
                  !.dones = Append(@, DoneRec(e.op, e.topic, TRUE, edge))]
  ELSE \* util.defer(done)
       [c1 EXCEPT !.deferQ = Append(@, DoneTask(id)),
                  !.dones = Append(@, DoneRec(e.op, e.topic, FALSE, edge))]

\* RedisClusterAscoltatore: newDone is handed to the transport command, or
\* called at once by an unsubscribe that is not the last of its pattern
RedisDone(c, e) ==
  LET id == Len(c.dones) + 1
      key == RedisSubTopic(e.topic)
      edge == Edge(c, e, key)
      c1 == [c EXCEPT !.counter = Counted(c, e, key)]
  IN
  IF e.calls # << >>
  THEN [c1 EXCEPT !.confirms = Append(@, Confirm(e.calls[1].fn, e.calls[1].arg, id)),
                  !.dones = Append(@, DoneRec(e.op, e.topic, TRUE, edge))]
  ELSE [c1 EXCEPT !.deferQ = Append(@, DoneTask(id)),
                  !.dones = Append(@, DoneRec(e.op, e.topic, FALSE, edge))]

RECURSIVE Register(_, _)
\* the done of every operation executed, in the order of execution; an
\* operation that raised has not come to its done
Register(c, entries) ==
  IF entries = << >> THEN c
  ELSE LET e == Head(entries)
           c1 == IF e.result # "ok" \/ e.op = "close" THEN c
                 ELSE IF kind = "amqp" THEN AMQPDone(c, e) ELSE RedisDone(c, e)
       IN Register(c1, Tail(entries))

\* the operations of this step hand over their done
Completing ==
  LET c == Register(Co, lastOps')
  IN /\ listeners' = c.listeners
     /\ confirms' = c.confirms
     /\ deferQ' = c.deferQ
     /\ dones' = c.dones
     /\ UNCHANGED <<timers, doneLog>>

lifecycleDone == <<kind, ready, closing, closed, client_conn, queue, closedListeners,
                   doCloseFor, errToDoClose, conn, handlerError, closes, nEnd,
                   closedEmits, errors, sent>>

\* the operations followed: those issued before close() has begun (later ones
\* are rejected and never come to their done), up to a bound
Followed == ~RaiseIfClosed /\ Len(dones) + Len(pendingOps) < MaxOps

SubscribeDone(topic, cb) ==
  /\ Followed
  /\ BagSize(live) + NumOps(pendingOps, "subscribe") < MaxSubs
  /\ Issue(Op("subscribe", topic, cb))
  /\ UNCHANGED lifecycleDone
  /\ Completing

UnsubscribeDone(topic, cb) ==
  /\ Followed
  /\ Issue(Op("unsubscribe", topic, cb))
  /\ UNCHANGED lifecycleDone
  /\ Completing

PublishDone(topic) ==
  /\ Followed
  /\ \/ Deferring /\ NumOps(pendingOps, "publish") < MaxInFlight
     \/ ~Deferring /\ FreeSlots(St) # {}
  /\ Issue(Op("publish", topic, "none"))
  /\ UNCHANGED lifecycleDone
  /\ Completing

\* "ready": the operations replayed hand over their done
AMQPConsumeOkDone ==
  /\ kind = "amqp"
  /\ conn = "consuming"
  /\ conn' = "open"
  /\ EmitReady
  /\ UNCHANGED <<kind, closing, closed, client_conn, queue, closedListeners,
                 doCloseFor, errToDoClose, handlerError, closes, nEnd, closedEmits,
                 errors, sent>>
  /\ Completing

RedisReadyDone ==
  /\ kind = "redis"
  /\ conn = "connecting"
  /\ conn' = "open"
  /\ EmitReady
  /\ UNCHANGED <<kind, closing, closed, client_conn, queue, closedListeners,
                 doCloseFor, errToDoClose, handlerError, closes, nEnd, closedEmits,
                 errors, sent>>
  /\ Completing

RECURSIVE Listening(_, _)
\* the ids of the listeners of an event, in order of registration
Listening(ls, ev) ==
  IF ls = << >> THEN << >>
  ELSE (IF Head(ls).ev = ev THEN <<Head(ls).id>> ELSE << >>) \o Listening(Tail(ls), ev)

RECURSIVE Others(_, _)
Others(ls, ev) ==
  IF ls = << >> THEN << >>
  ELSE (IF Head(ls).ev # ev THEN <<Head(ls)>> ELSE << >>) \o Others(Tail(ls), ev)

\* the queue emits "queueBindOk" or "queueUnbindOk" for the oldest command
\* not yet confirmed: every once() listener of the event runs and is removed
AMQPQueueEvent ==
  /\ kind = "amqp"
  /\ confirms # << >>
  /\ conn # "closed"
  /\ LET ev == Head(confirms).ev
         fire == Listening(listeners, ev)
     IN /\ confirms' = Tail(confirms)
        /\ listeners' = Others(listeners, ev)
        /\ dones' = [dones EXCEPT ![Head(confirms).id].confirmed = TRUE]
        /\ IF ev = "queueBindOk"
           THEN \* setTimeout(function() { util.defer(done); }, 5)
                /\ timers' = timers \o fire
                /\ UNCHANGED deferQ
           ELSE \* util.defer(done)
                /\ deferQ' = deferQ \o [i \in 1..Len(fire) |-> DoneTask(fire[i])]
                /\ UNCHANGED timers
  /\ Quiet
  /\ QuietMsgs
  /\ UNCHANGED <<kind, ready, closing, closed, client_conn, queue, subs_counter,
                 ascoltatore, ascoltatores, pendingOps, closedListeners, doCloseFor,
                 errToDoClose, conn, bindings, inbox, handlerError, live, closes,
                 nEnd, closedEmits, scen, doneLog, errors, sent>>

\* a timer set by a "queueBindOk" listener expires
TimerFire ==
  /\ timers # << >>
  /\ timers' = Tail(timers)
  /\ deferQ' = Append(deferQ, DoneTask(Head(timers)))
  /\ Quiet
  /\ QuietMsgs
  /\ UNCHANGED <<kind, ready, closing, closed, client_conn, queue, subs_counter,
                 ascoltatore, ascoltatores, pendingOps, closedListeners, doCloseFor,
                 errToDoClose, conn, bindings, inbox, handlerError, live, closes,
                 nEnd, closedEmits, scen, listeners, confirms, dones, doneLog,
                 errors, sent>>

\* the transport calls the callback of the oldest command not yet confirmed
RedisConfirm ==
  /\ kind = "redis"
  /\ confirms # << >>
  /\ conn # "closed"
  /\ confirms' = Tail(confirms)
  /\ dones' = [dones EXCEPT ![Head(confirms).id].confirmed = TRUE]
  /\ deferQ' = Append(deferQ, DoneTask(Head(confirms).id))
  /\ Quiet
  /\ QuietMsgs
  /\ UNCHANGED <<kind, ready, closing, closed, client_conn, queue, subs_counter,
                 ascoltatore, ascoltatores, pendingOps, closedListeners, doCloseFor,
                 errToDoClose, conn, bindings, inbox, handlerError, live, closes,
                 nEnd, closedEmits, scen, listeners, timers, doneLog, errors, sent>>

\* util.defer: the next deferred callback runs; a done is invoked
RunDeferredDone ==
  /\ RunDeferred
  /\ IF Head(deferQ).type = "done"
     THEN LET id == Head(deferQ).id
          IN /\ dones' = [dones EXCEPT ![id].fired = @ + 1,
                                       ![id].early = @ \/ (dones[id].awaits
                                                           /\ ~dones[id].confirmed)]
             /\ doneLog' = Append(doneLog, id)
     ELSE UNCHANGED <<dones, doneLog>>
  /\ UNCHANGED <<listeners, confirms, timers, errors, sent>>

NextDone ==
  \/ \E x \in SubIds : SubscribeDone(x[1], x[2])
  \/ \E x \in SubIds : UnsubscribeDone(x[1], x[2])
  \/ \E topic \in PubTopics : PublishDone(topic)
  \/ AMQPClose /\ UNCHANGED <<completion, errors, sent>>
  \/ RedisClose /\ UNCHANGED <<completion, errors, sent>>
  \/ AMQPQueueOpen /\ UNCHANGED <<completion, errors, sent>>
  \/ AMQPConsumeOkDone
  \/ RedisReadyDone
  \/ AMQPConnClose /\ UNCHANGED <<completion, errors, sent>>
  \/ AMQPConnError /\ UNCHANGED <<completion, errors, sent>>
  \/ RedisDisconnected /\ UNCHANGED <<completion, errors, sent>>
  \/ AMQPDeliver /\ UNCHANGED <<completion, errors, sent>>
  \/ RedisMessage /\ UNCHANGED <<completion, errors, sent>>
  \/ AMQPQueueEvent
  \/ TimerFire
  \/ RedisConfirm
  \/ RunDeferredDone

\* the adapter with the completion callbacks of its operations
SpecDone == Init /\ [][NextDone]_vars

-----------------------------------------------------------------------------
(* Errors of the transport.                                                *)

\* the connection emits "error": the handler of _startConn emits "error" on
\* the adapter, until close() has replaced it by doClose
AMQPConnErrorSeen ==
  /\ errors.reported < MaxErrors
  /\ AMQPConnError
  /\ errors' = [reported |-> errors.reported + 1,
                emitted |-> errors.emitted + (IF errToDoClose THEN 0 ELSE 1)]
  /\ UNCHANGED <<completion, sent>>

\* the cluster client emits "error": _startPubSub has registered no listener
\* for it, the adapter does not react
RedisError ==
  /\ kind = "redis"
  /\ conn # "closed"
  /\ errors.reported < MaxErrors
  /\ errors' = [errors EXCEPT !.reported = @ + 1]
  /\ Quiet
  /\ QuietMsgs
  /\ UNCHANGED <<kind, ready, closing, closed, client_conn, queue, subs_counter,
                 ascoltatore, ascoltatores, pendingOps, closedListeners, doCloseFor,
                 errToDoClose, conn, bindings, inbox, deferQ, handlerError, live,
                 closes, nEnd, closedEmits, scen, completion, sent>>

NextError ==
  \/ \E x \in SubIds : Subscribe(x[1], x[2]) /\ UNCHANGED <<completion, errors, sent>>
  \/ \E x \in SubIds : Unsubscribe(x[1], x[2]) /\ UNCHANGED <<completion, errors, sent>>
  \/ \E topic \in PubTopics : Publish(topic) /\ UNCHANGED <<completion, errors, sent>>
  \/ AMQPClose /\ UNCHANGED <<completion, errors, sent>>
  \/ RedisClose /\ UNCHANGED <<completion, errors, sent>>
  \/ AMQPQueueOpen /\ UNCHANGED <<completion, errors, sent>>
  \/ AMQPConsumeOk /\ UNCHANGED <<completion, errors, sent>>
  \/ RedisReady /\ UNCHANGED <<completion, errors, sent>>
  \/ AMQPConnClose /\ UNCHANGED <<completion, errors, sent>>
  \/ AMQPConnErrorSeen
  \/ RedisError
  \/ RedisDisconnected /\ UNCHANGED <<completion, errors, sent>>
  \/ AMQPDeliver /\ UNCHANGED <<completion, errors, sent>>
  \/ RedisMessage /\ UNCHANGED <<completion, errors, sent>>
  \/ RunDeferred /\ UNCHANGED <<completion, errors, sent>>

\* the adapter with the errors of its transport counted
SpecError == Init /\ [][NextError]_vars

-----------------------------------------------------------------------------
(* Two instances on one transport: the adapter and a second instance that  *)
(* is ready and not closed, and publishes.                                 *)

\* publish of the other AMQPAscoltatore: the exchange routes the message to
\* the queue of this adapter when one of its bindings matches (the forward
\* to an auxiliary queue does not reach this adapter)
PeerAMQPPublish(s, topic, message) ==
  LET data == String(message)
      key == PubTopic(topic)
      routed == Sendable(data) /\ \E b \in s.bind : AMQPRoutes(b.key, key)
      slot == NextSlot(s)
  IN [s EXCEPT
        !.msgs = NewMsg(s, slot, topic),
        !.inbox = IF routed
                  THEN Append(@, [sub |-> << >>, topic |-> key, slot |-> slot])
                  ELSE @]

\* publish of the other RedisClusterAscoltatore: the cluster delivers the
\* message once for every subscription of this adapter's client it matches
PeerRedisPublish(s, topic, message) ==
  LET data == RedisPayload(message)
      channel == RedisPubTopic(topic)
      to == IF Sendable(data)
            THEN SetToSeq({b \in s.bind : RedisRoutes(b, channel)})
            ELSE << >>
      slot == NextSlot(s)
  IN [s EXCEPT
        !.msgs = NewMsg(s, slot, topic),
        !.inbox = @ \o [i \in 1..Len(to) |->
                          [sub |-> to[i].key, topic |-> channel, slot |-> slot]]]

PeerPublish(topic, message) ==
  LET s == IF kind = "amqp" THEN PeerAMQPPublish(St, topic, message)
           ELSE PeerRedisPublish(St, topic, message)
  IN /\ FreeSlots(St) # {}
     /\ inbox' = s.inbox
     /\ msgs' = s.msgs
     /\ sent' = [sent EXCEPT ![NextSlot(St)] =
                   [message |-> message,
                    to |-> {x \in SubIds : live[x] > 0 /\ TrieMatch(x[1], topic)}]]
     /\ Quiet
     /\ UNCHANGED <<lifecycle, subs_counter, ascoltatore, ascoltatores, bindings,
                    pendingOps, live, scen, completion, errors>>

Arrive == (AMQPDeliver \/ RedisMessage) /\ UNCHANGED <<completion, errors, sent>>

Dispatch == RunDeferred /\ UNCHANGED <<completion, errors, sent>>

NextSync ==
  \/ \E x \in SubIds : Subscribe(x[1], x[2]) /\ UNCHANGED <<completion, errors, sent>>
  \/ AMQPQueueOpen /\ UNCHANGED <<completion, errors, sent>>
  \/ AMQPConsumeOk /\ UNCHANGED <<completion, errors, sent>>
  \/ RedisReady /\ UNCHANGED <<completion, errors, sent>>
  \/ \E topic \in PubTopics : \E message \in Payloads : PeerPublish(topic, message)
  \/ Arrive
  \/ Dispatch

\* the transport hands over the message at the head of those it has routed
\* to the adapter (Arrive is the only step that does)
Handed == inbox # << >> /\ inbox' = Tail(inbox)

\* the event loop runs the deferred callback at the head of its queue
\* (Dispatch is the only step that does)
Ran == deferQ # << >> /\ deferQ' = Tail(deferQ)

\* the adapter subscribes, the other instance publishes; the transport hands
\* over every message it has routed and every deferred callback runs
SpecSync == Init /\ [][NextSync]_vars /\ WF_inbox(Handed) /\ WF_deferQ(Ran)

-----------------------------------------------------------------------------
(* Publishing on the topics of the devices.                                *)

Path(segs) == IF Len(segs) = 0 THEN << >>
              ELSE [i \in 1..(2 * Len(segs) - 1) |->
                      IF i % 2 = 1 THEN segs[(i + 1) \div 2] ELSE "/"]

AuxTopics ==
  {<<"/">> \o Path(<<"v1", "d1", "data">>),
   <<"/">> \o Path(<<"v1", "d1", "data", "power">>),
   <<"/">> \o Path(<<"v1", "d1", "status">>),
   <<"/">> \o Path(<<"v1", "data">>),
   <<"/">> \o Path(<<"v2", "t1", "transmitter", "presence", "connect">>),
   <<"/">> \o Path(<<"v2", "d1", "device", "presence", "connect">>),
   <<"/">> \o Path(<<"v2", "d1", "device", "presence", "disconnect">>),
   <<"/">> \o Path(<<"v2", "d1", "device", "data">>),
   <<"/">> \o Path(<<"v2", "d1", "device", "data", "power">>),
   <<"/">> \o Path(<<"v2", "t1", "transmitter", "data">>),
   <<"/">> \o Path(<<"v3", "d1", "data">>),
   Path(<<"v1", "d1", "data">>),
   Path(<<"a", "b">>)}

NextAux ==
  \/ \E topic \in AuxTopics : Publish(topic) /\ UNCHANGED <<completion, errors, sent>>
  \/ AMQPQueueOpen /\ UNCHANGED <<completion, errors, sent>>
  \/ AMQPConsumeOk /\ UNCHANGED <<completion, errors, sent>>
  \/ RedisReady /\ UNCHANGED <<completion, errors, sent>>
  \/ AMQPClose /\ UNCHANGED <<completion, errors, sent>>
  \/ RedisClose /\ UNCHANGED <<completion, errors, sent>>
  \/ AMQPConnClose /\ UNCHANGED <<completion, errors, sent>>
  \/ RedisDisconnected /\ UNCHANGED <<completion, errors, sent>>
  \/ RunDeferred /\ UNCHANGED <<completion, errors, sent>>

\* the adapter publishing on device topics, before and after "ready", until
\* it is closed
SpecAux == Init /\ [][NextAux]_vars

-----------------------------------------------------------------------------
(* The claims.                                                             *)

\* the key the reference counter holds for a pattern
CounterKey(p) == IF kind = "amqp" THEN p ELSE RedisSubTopic(p)

\* the local trie that holds the subscriptions of a pattern
TrieOf(p) ==
  IF kind = "amqp" THEN ascoltatore
  ELSE IF RedisSubTopic(p) \in DOMAIN ascoltatores THEN ascoltatores[RedisSubTopic(p)]
  ELSE EmptyBag

\* C1: in AMQPAscoltatore (ready, not closed), for a pattern p nobody is
\* subscribed to and two distinct targets cb1, cb2: subscribe(p, cb1) and
\* subscribe(p, cb2) issue exactly one queue.bind, the following
\* unsubscribe(p, cb1) issues no queue.unbind, the following
\* unsubscribe(p, cb2) issues exactly one.
C1_AMQPOneBindOneUnbind ==
  kind = "amqp" =>
    \A p \in Patterns :
      /\ scen[p].stage \in {1, 2} => scen[p].binds = 1 /\ scen[p].unbinds = 0
      /\ scen[p].stage = 3 => scen[p].binds = 1 /\ scen[p].unbinds = 0
      /\ scen[p].stage = 4 => scen[p].binds = 1 /\ scen[p].unbinds = 1

C1_Witness ==
  /\ kind = "amqp"
  /\ \E p \in Patterns : scen[p].stage = 4 /\ scen[p].first # scen[p].second

\* C2: in RedisClusterAscoltatore, subscribing a pattern a second time with
\* another delivery target while the first subscription is live issues no
\* further rc.subscribe / rc.psubscribe: the two subscribes issue one.
C2_RedisSubscribeOnlyOnFirst ==
  kind = "redis" =>
    \A p \in Patterns : scen[p].stage = 2 => scen[p].binds = 1

\* C3: the reference count held for a pattern equals the number of
\* subscriptions registered in the local trie for that pattern, after any
\* sequence of subscribe and unsubscribe calls.
C3_CountEqualsTrie ==
  \A p \in Patterns : Count(subs_counter, CounterKey(p)) = PatternSize(TrieOf(p), p)

\* C4: an unsubscribe issues a transport-level unsubscribe (queue.unbind,
\* rc.unsubscribe, rc.punsubscribe) exactly when it takes the count of the
\* pattern from one to zero; on a pattern whose count is zero it issues none.
C4_UnsubscribeOnlyOnLast ==
  [][\A p \in Patterns :
       (/\ ready
        /\ Len(lastOps') = 1
        /\ lastOps'[1].op = "unsubscribe"
        /\ lastOps'[1].result = "ok"
        /\ lastOps'[1].topic = p)
       => NumCalls(lastOps'[1].calls, UnsubscribeCalls)
            = IF Count(subs_counter, CounterKey(p)) = 1 THEN 1 ELSE 0]_vars

\* C5: for a published message whose delivery is over, every subscription
\* the caller has held since before the publish was invoked exactly once if
\* its pattern matches the topic and never if not, with the topic as
\* published.
C5_ExactlyOnce ==
  \A k \in DOMAIN msgs :
    (msgs[k].used /\ msgs[k].stable /\ ~InFlight(St, k)) =>
      /\ ~msgs[k].bad
      /\ \A x \in SubIds :
           msgs[k].got[x] = IF TrieMatch(x[1], msgs[k].topic) THEN live[x] ELSE 0

\* C6: however many times close is called, one shutdown is started (one
\* conn.end / rc.disconnect), no close raises an error, no done is invoked
\* twice, and once the adapter is closed and nothing is pending every done
\* has been invoked.
C6_CloseTwice ==
  /\ nEnd <= 1
  /\ \A i \in 1..Len(closes) : closes[i].result = "ok" /\ closes[i].done <= 1
  /\ (closed /\ conn = "closed" /\ deferQ = << >>) =>
       \A i \in 1..Len(closes) : closes[i].done = 1

\* C7: a subscribe, unsubscribe or publish issued once close() has begun is
\* rejected with the closed condition and changes nothing: not the local
\* tries, not the reference counter, and no transport call is issued.
C7_RejectedAfterClose ==
  [][(/\ RaiseIfClosed
      /\ ready' = ready
      /\ lastOps' # << >>
      /\ lastOps'[1].op # "close")
     => /\ Len(lastOps') = 1
        /\ lastOps'[1].result = "closed"
        /\ lastOps'[1].calls = << >>
        /\ UNCHANGED <<subs_counter, ascoltatore, ascoltatores, bindings, inbox,
                       pendingOps, deferQ>>]_vars

C7_Witness ==
  /\ kind = "amqp"
  /\ closing
  /\ ~closed
  /\ BagSize(ascoltatore) > 0
  /\ lastOps # << >>
  /\ lastOps[1].op = "subscribe"
  /\ lastOps[1].result = "closed"

\* a subscribe among the deferred operations that is still in force at
\* position j: no unsubscribe of its pattern follows it before j
InForce(ops, i, j) ==
  /\ i < j
  /\ ops[i].op = "subscribe"
  /\ \A m \in (i + 1)..(j - 1) :
       ~(ops[m].op = "unsubscribe" /\ ops[m].topic = ops[i].topic)

C9_ClosedIsEmpty ==
  closed =>
    /\ DOMAIN subs_counter = {}
    /\ ascoltatore = EmptyBag
    /\ DOMAIN ascoltatores = {}

\* C10: "closed" is emitted and the closed flag set only after the
\* transport has confirmed the disconnection asked for by close().
C10_ClosedAfterDisconnect ==
  closed => conn = "closed"

\* C11: the done callbacks of subscribe, unsubscribe and publish are invoked
\* in the order the operations were issued: when a done is invoked, the done
\* of every operation issued earlier has been invoked already.
C11_DonesInIssueOrder ==
  \A i \in 1..Len(doneLog) :
    \A id \in 1..(doneLog[i] - 1) : \E k \in 1..(i - 1) : doneLog[k] = id

\* C12: in AMQPAscoltatore the done of a first-of-kind subscribe (of a
\* last-of-kind unsubscribe) is invoked only after the confirmation of its
\* own bind (unbind) has arrived, and no done is invoked twice.
C12_DoneAfterOwnConfirm ==
  kind = "amqp" =>
    \A id \in 1..Len(dones) :
      /\ dones[id].edge => ~dones[id].early
      /\ dones[id].fired <= 1

\* C13: once the transport has reported an error, the adapter has emitted an
\* "error" notification for every error reported and close has begun or
\* ended (subscribe, unsubscribe and publish are rejected).
C13_ErrorSurfacedAndClosed ==
  errors.reported > 0 =>
    /\ errors.emitted = errors.reported
    /\ RaiseIfClosed

\* C14: a message the other instance publishes while the adapter holds
\* subscriptions on patterns matching its topic is eventually handed to the
\* callback of each of them, with the topic it was published on, whatever
\* its payload (a string, null or undefined).
C14_PeerPublishDelivered ==
  \A k \in 1..MaxInFlight :
    (msgs[k].used /\ sent[k].to # {})
    ~> (/\ msgs[k].used
        /\ \A x \in sent[k].to : msgs[k].got[x] > 0
        /\ ~msgs[k].bad)

C14_Witness ==
  \E k \in 1..MaxInFlight : \E x \in sent[k].to :
    /\ msgs[k].used
    /\ sent[k].message \in {Null, Undefined}
    /\ live[x] > 0
    /\ msgs[k].got[x] > 0
    /\ ~msgs[k].bad

\* C15: "closed" is emitted at most once and the done of the close() that
\* started the shutdown is invoked at most once, whatever "close" and "error"
\* events the transport emits afterwards; once closed, no step changes
\* ready, closing or closed again.
C15_ClosedOnceAndTerminal ==
  [][/\ closedEmits' <= 1
     /\ doCloseFor' # 0 => closes'[doCloseFor'].done <= 1
     /\ closed => (closed' /\ closing' = closing /\ ready' = ready)]_vars

\* an AMQP adapter closed by the "error" that followed close(), its done
\* invoked, and the "close" of the connection arrived after that
C15_Witness ==
  /\ kind = "amqp"
  /\ closed
  /\ errors.reported > 0
  /\ errors.emitted = 0
  /\ conn = "closed"
  /\ closedEmits = 1
  /\ closes[doCloseFor].done = 1

\* the delivery targets a step invokes for the message followed in slot k
InvokedBy(k) == {x \in SubIds : msgs'[k].got[x] > Settled(msgs)[k].got[x]}

\* C16: in RedisClusterAscoltatore the step in which a message arrives from
\* the client invokes no delivery target and queues a deferred dispatch;
\* delivery targets are invoked only by a deferred dispatch, and only those
\* the table of local routers holds for the subscription when it runs; the
\* message handler raises nothing.
C16_RedisDispatchDeferred ==
  [][kind = "redis" =>
       /\ (Len(deferQ') > Len(deferQ) /\ deferQ'[Len(deferQ')].type = "dispatch")
            => /\ inbox # << >>
               /\ inbox' = Tail(inbox)
               /\ \A k \in 1..MaxInFlight : InvokedBy(k) = {}
       /\ \A k \in 1..MaxInFlight : InvokedBy(k) # {} =>
            /\ deferQ # << >>
            /\ Head(deferQ).type = "dispatch"
            /\ Head(deferQ).slot = k
            /\ deferQ' = Tail(deferQ)
            /\ Head(deferQ).sub \in DOMAIN ascoltatores
            /\ \A x \in InvokedBy(k) : ascoltatores[Head(deferQ).sub][x] > 0
       /\ ~handlerError']_vars

\* a message dispatched to a subscriber after the subscriptions have changed
\* between its arrival and its dispatch
C16_Witness ==
  /\ kind = "redis"
  /\ \E k \in 1..MaxInFlight : \E x \in SubIds :
       /\ msgs[k].used
       /\ ~msgs[k].stable
       /\ msgs[k].got[x] > 0

\* C17: in AMQPAscoltatore no close() raises an exception, and while the
\* adapter is closing and not yet closed the connection is being ended, so
\* that its "close" (or "error") event takes the adapter to closed.
C17_AMQPCloseNeverStuck ==
  kind = "amqp" =>
    /\ \A i \in 1..Len(closes) : closes[i].result # "TypeError"
    /\ (closing /\ ~closed) => conn = "ending"

\* C18: once close() has begun, a message that arrives or is dispatched
\* invokes no delivery target and raises nothing in the message handler; a
\* dispatched message invokes a callback through a pattern only while the
\* caller holds that subscription (not after its unsubscribe has returned).
C18_NoDeliveryAfterCloseOrUnsubscribe ==
  [][/\ RaiseIfClosed => /\ \A k \in 1..MaxInFlight : InvokedBy(k) = {}
                         /\ ~handlerError'
     /\ \A k \in 1..MaxInFlight : \A x \in InvokedBy(k) : live[x] > 0]_vars

\* C19: in RedisClusterAscoltatore the table of local routers has an entry
\* for a translated pattern exactly when the reference counter includes it;
\* after close the table is empty.
C19_RoutersFollowCounter ==
  kind = "redis" =>
    /\ DOMAIN ascoltatores =
         {RedisSubTopic(p) : p \in {q \in Patterns :
                                      CounterInclude(subs_counter, RedisSubTopic(q))}}
    /\ \A k \in DOMAIN subs_counter : CounterInclude(subs_counter, k)
    /\ closed => DOMAIN ascoltatores = {}

\* the unsubscribe that took the count of a pattern to zero has removed its
\* entry, while another pattern keeps its own
C19_Witness ==
  /\ kind = "redis"
  /\ lastOps # << >>
  /\ LET e == lastOps[Len(lastOps)]
     IN /\ e.op = "unsubscribe"
        /\ e.result = "ok"
        /\ e.calls # << >>
        /\ PatternSize(live, e.topic) = 0
        /\ RedisSubTopic(e.topic) \notin DOMAIN ascoltatores
        /\ DOMAIN ascoltatores # {}

\* segment i of a topic, counted from 0 as split("/") counts them
Segment(topic, i) ==
  LET segs == Split(topic, "/") IN IF i < Len(segs) THEN segs[i + 1] ELSE <<"none">>

\* the auxiliary queues a topic is forwarded to
Forwards(topic) ==
  LET v1 == Segment(topic, 1) = <<"v1">>
      v2 == Segment(topic, 1) = <<"v2">>
      connect == Segment(topic, 4) = <<"presence">> /\ Segment(topic, 5) = <<"connect">>
  IN  (IF v1 /\ endsWith(topic, <<"/", "data">>) THEN {dataV1Queue} ELSE {})
      \cup (IF v1 /\ endsWith(topic, <<"/", "data", "/", "power">>) THEN {powerQueue} ELSE {})
      \cup (IF v2 /\ Segment(topic, 3) = <<"transmitter">> /\ connect
            THEN {transmitterConnectQueue} ELSE {})
      \cup (IF v2 /\ Segment(topic, 3) = <<"device">> /\ connect
            THEN {deviceConnectQueue} ELSE {})
      \cup (IF v2 /\ Segment(topic, 3) = <<"device">> /\ Segment(topic, 4) = <<"data">>
            THEN {dataV2Queue} ELSE {})

\* C20: in AMQPAscoltatore a publish on an adapter that is not closed sends
\* one message to the exchange and forwards the message to the auxiliary
\* queues the segments of its topic select, which is at most one queue.
C20_AMQPForward ==
  kind = "amqp" =>
    \A i \in 1..Len(lastOps) :
      LET e == lastOps[i]
          to == {e.calls[j].arg : j \in {n \in 1..Len(e.calls) : e.calls[n].fn = "forward"}}
      IN e.op = "publish" =>
           \/ e.result = "closed"
           \/ /\ e.result = "ok"
              /\ NumCalls(e.calls, {"publish"}) = 1
              /\ NumCalls(e.calls, {"forward"}) <= 1
              /\ to = Forwards(e.topic)

\* a publish forwarded to the connect queue of the transmitters, then sent
\* to the exchange
C20_Witness ==
  /\ kind = "amqp"
  /\ \E i \in 1..Len(lastOps) :
       /\ lastOps[i].op = "publish"
       /\ lastOps[i].result = "ok"
       /\ lastOps[i].calls = <<Call("forward", transmitterConnectQueue),
                               Call("publish", PubTopic(lastOps[i].topic))>>

====
